---- MODULE Spec2Model ----
(***************************************************************************)
(* Progressive data delivery, two variants.                                *)
(*                                                                         *)
(*   Polling variant   (src/using-two-requests/main.py):                   *)
(*     GET /rows builds a batch and queues one background task per row;    *)
(*     GET /slow-value/{row_id} reads the process-wide dict slow_results.  *)
(*     The queued tasks are a fastapi BackgroundTasks object: the          *)
(*     framework sends the response first and then awaits the queued       *)
(*     tasks one after the other, in the order add_task queued them.       *)
(*                                                                         *)
(*   Streaming variant (src/using-one-request-sse/main_sse.py):            *)
(*     GET /stream wraps the async generator stream_rows() in a            *)
(*     StreamingResponse, which pulls one chunk at a time.                 *)
(*                                                                         *)
(* Text produced by f-strings is modelled as the tuple of its literal part *)
(* and the formatted value: f"SlowValue-{7}" is <<"SlowValue-", 7>>.       *)
(* Python's None is the empty tuple.                                       *)
(***************************************************************************)
EXTENDS Integers, Sequences, FiniteSets, TLC

VARIABLES
    slow_results,   \* main.py: the module-level dict row_id -> text
    batches,        \* main.py: one record per GET /rows request, in arrival order
    response,       \* main.py: the last HTTP response a client received
    slept,          \* main.py: per request, time the running task has slept
    watched,        \* main.py: the request a stopwatch was started for (0: none)
    elapsed,        \* main.py: the stopwatch, time since the watched GET /rows
    conns           \* main_sse.py: one record per GET /stream connection

pollVars == <<slow_results, batches, response>>
timeVars == <<slept, watched, elapsed>>
vars == <<slow_results, batches, response, slept, watched, elapsed, conns>>

----------------------------------------------------------------------------
(* Bounds of the model *)

MaxBatches == 2        \* GET /rows requests in the untimed polling runs
MaxTimedBatches == 1   \* GET /rows requests in the timed polling runs
MaxLiveBatches == 1    \* GET /rows requests in the polling runs checked for liveness
MaxSeed == 1           \* states of the random generator a request may draw from
MaxConns == 2          \* GET /stream connections
Margin == 1            \* the "plus margin" of the availability bounds

(* Program constants *)

RowRangeStop == 11     \* main.py: range(1, 11)
FastRangeStop == 6     \* main_sse.py: range(1, 6) of fast_rows
SlowRangeStop == 6     \* main_sse.py: range(1, 6) of slow_values
SleepDelay == 3        \* main_sse.py: asyncio.sleep(3)
MinDelay == 2          \* random.uniform(2, 5)
MaxDelay == 5          \* random.uniform(2, 5)

None == <<>>

\* range(start, stop), in iteration order
PyRange(start, stop) == [k \in 1..(stop - start) |-> start + k - 1]

\* The elements of a sequence
Range(seq) == {seq[k] : k \in 1..Len(seq)}

----------------------------------------------------------------------------
(* Polling variant: data *)

Seeds == 0..MaxSeed

\* round(random.random() * 100, 2), in hundredths: the i-th draw of a
\* pseudo-random generator in state seed.  Only its range matters.
Price(seed, i) == (seed * 3701 + i * 1999) % 10001

\* f"SlowValue-{row_id}"
SlowValueText(row_id) == <<"SlowValue-", row_id>>

\* f"Item {i}"
ItemName(i) == <<"Item ", i>>

\* One element of rows as appended by get_rows.
Row(i, seed) ==
    [id |-> i, name |-> ItemName(i), price |-> Price(seed, i), slow_value |-> None]

\* range(1, 11), in iteration order
RowRange == PyRange(1, RowRangeStop)

\* The size of a batch
NumRows == Len(RowRange)

\* Row identifiers a client may ask /slow-value for: the first and last of a
\* batch and the integers just outside it.
FetchIds == {0 - 1, 0, 1, NumRows, NumRows + 1}

\* dict.get(key): the value, or None when the key is absent.
DictGet(d, k) == IF k \in DOMAIN d THEN d[k] ELSE None

\* d[key] = value
DictSet(d, k, v) == [x \in (DOMAIN d) \cup {k} |-> IF x = k THEN v ELSE d[x]]

NoResponse == [kind |-> "none", status |-> 0, body |-> None]

----------------------------------------------------------------------------
(* Polling variant: the handlers as functions *)

\* get_rows inserting each task at the head of the queue: the tasks run in
\* descending identifier order.
get_rows_result_reversed(seed) ==
    [rows  |-> [k \in 1..Len(RowRange) |-> Row(RowRange[k], seed)],
     tasks |-> [k \in 1..Len(RowRange) |-> RowRange[Len(RowRange) + 1 - k]]]

\* get_rows with add_task after the loop instead of inside it: one task, for
\* the last value of i.
get_rows_result_dedented(seed) ==
    [rows  |-> [k \in 1..Len(RowRange) |-> Row(RowRange[k], seed)],
     tasks |-> <<RowRange[Len(RowRange)]>>]

\* The loop of get_rows: the rows it returns and the tasks it queues with
\* background_tasks.add_task(compute_slow_value, i), both in loop order.
get_rows_result(seed) ==
    [rows  |-> [k \in 1..Len(RowRange) |-> Row(RowRange[k], seed)],
     tasks |-> [k \in 1..Len(RowRange) |-> RowRange[k]]]

\* get_slow_value with slow_results[row_id] in place of .get: an absent key
\* raises KeyError, which the framework answers with status 500.
get_slow_value_subscript(store, row_id) ==
    [resp  |-> [kind |-> "slow-value",
                status |-> IF row_id \in DOMAIN store THEN 200 ELSE 500,
                body |-> [id |-> row_id, slow_value |-> DictGet(store, row_id)]],
     store |-> store]

\* get_slow_value with slow_results.pop(row_id, None) in place of .get: the
\* entry is handed out once and removed.
get_slow_value_pop(store, row_id) ==
    [resp  |-> [kind |-> "slow-value", status |-> 200,
                body |-> [id |-> row_id, slow_value |-> DictGet(store, row_id)]],
     store |-> [x \in (DOMAIN store) \ {row_id} |-> store[x]]]

\* get_slow_value: the response it returns and the store it leaves behind.
get_slow_value_result(store, row_id) ==
    [resp  |-> [kind |-> "slow-value", status |-> 200,
                body |-> [id |-> row_id, slow_value |-> DictGet(store, row_id)]],
     store |-> store]

\* compute_slow_value rebinding the dict (slow_results = {row_id: ...}): the
\* other entries are lost.
compute_slow_value_rebind(store, row_id) ==
    [x \in {row_id} |-> SlowValueText(row_id)]

\* compute_slow_value formatting the identifier that follows its own.
compute_slow_value_next_id(store, row_id) ==
    DictSet(store, row_id, SlowValueText(row_id + 1))

\* The assignment compute_slow_value makes once its sleep is over.
compute_slow_value_write(store, row_id) ==
    DictSet(store, row_id, SlowValueText(row_id))

\* Whether asyncio.sleep(random.uniform(2, 5)) can be over after s time units,
\* and whether it can still go on.
SleepMayEnd(s) == s >= MinDelay
SleepMayGoOnLonger(s) == s < MaxDelay + 1
SleepMayGoOn(s) == s < MaxDelay

----------------------------------------------------------------------------
(* Polling variant: state of one request *)

BatchIds == 1..Len(batches)

\* phase "handled": get_rows has returned, the response is not sent yet.
\* phase "running": the response is out and task number next is sleeping.
\* phase "done":    every queued task has run.
Handled(b) == batches[b].phase = "handled"
Running(b) == batches[b].phase = "running"
Finished(b) == batches[b].phase = "done"

\* The k-th queued task of request b has made its write.
TaskWritten(b, k) == batches[b].phase # "handled" /\ batches[b].next > k

\* The k-th queued task of request b has been started (is asleep or has
\* written).
TaskStarted(b, k) == batches[b].phase # "handled" /\ batches[b].next >= k

\* The row identifiers request b returned / queued a task for.
BatchRowIds(b) == Range(batches[b].tasks)

----------------------------------------------------------------------------
(* Polling variant: operations.  Each leaves the timers to the specification *)
(* it is used in.                                                            *)

\* get_rows awaiting compute_slow_value(i) in its loop instead of queueing it:
\* the tasks run while the client still waits for the response.
NewBatchAwaited(seed) ==
    LET r == get_rows_result(seed)
    IN  [phase |-> "running", rows |-> r.rows, tasks |-> r.tasks,
         next |-> 1, client |-> "waiting"]

\* The request record get_rows leaves behind when it returns: the response
\* body and the queued tasks, none of them started, the client still waiting.
NewBatch(seed) ==
    LET r == get_rows_result(seed)
    IN  [phase |-> "handled", rows |-> r.rows, tasks |-> r.tasks,
         next |-> 1, client |-> "waiting"]

\* The phase of a request whose task number n is the next to run.
PhaseAt(b, n) == IF n > Len(batches[b].tasks) THEN "done" ELSE "running"

\* GET /rows: the handler runs to its return without suspending.
GetRows(limit, seed) ==
    /\ Len(batches) < limit
    /\ batches' = Append(batches, NewBatch(seed))
    /\ UNCHANGED <<slow_results, response, conns>>

\* The framework sends the response of request b; only then does it start the
\* first queued task, which goes to sleep.
Respond(b) ==
    /\ Handled(b)
    /\ response' = [kind |-> "rows", status |-> 200, body |-> batches[b].rows]
    /\ batches' = [batches EXCEPT ![b].phase = PhaseAt(b, batches[b].next),
                                  ![b].rows = <<>>,
                                  ![b].client = "received"]
    /\ UNCHANGED <<slow_results, conns>>

\* A disconnect that cancels the request together with its queued tasks.
AfterDisconnectCancels(rec) ==
    [rec EXCEPT !.phase = "done", !.rows = <<>>, !.client = "gone"]

\* What a client disconnect leaves of request b: nothing in main.py cancels
\* the queued tasks, so an unsent response is dropped and the tasks run.
AfterDisconnect(rec) ==
    [rec EXCEPT !.phase = IF rec.phase = "handled"
                          THEN (IF rec.next > Len(rec.tasks) THEN "done" ELSE "running")
                          ELSE rec.phase,
                !.rows = <<>>,
                !.client = "gone"]

\* The client of request b goes away, before or after the response.
Disconnect(b) ==
    /\ batches[b].client # "gone"
    /\ batches' = [batches EXCEPT ![b] = AfterDisconnect(batches[b])]
    /\ UNCHANGED <<slow_results, response, conns>>

\* compute_slow_value of the running task of request b wakes up and writes;
\* the framework then starts the next queued task of the same request.
TaskComplete(b) ==
    /\ Running(b)
    /\ slow_results' =
           compute_slow_value_write(slow_results, batches[b].tasks[batches[b].next])
    /\ batches' = [batches EXCEPT ![b].next = batches[b].next + 1,
                                  ![b].phase = PhaseAt(b, batches[b].next + 1)]
    /\ UNCHANGED <<response, conns>>

\* GET /slow-value/{row_id}
GetSlowValue(row_id) ==
    LET r == get_slow_value_result(slow_results, row_id)
    IN  /\ response' = r.resp
        /\ slow_results' = r.store
        /\ UNCHANGED <<batches, conns>>

----------------------------------------------------------------------------
(* Polling variant: time.  One unit passes for every sleeping task at once;  *)
(* sending a response and starting a task take no time.                      *)

TimedGetRows(seed) ==
    /\ GetRows(MaxTimedBatches, seed)
    /\ slept' = Append(slept, 0)
    /\ \/ UNCHANGED <<watched, elapsed>>
       \/ /\ watched = 0
          /\ watched' = Len(batches) + 1
          /\ elapsed' = 0

TimedRespond(b) ==
    /\ Respond(b)
    /\ UNCHANGED timeVars

TimedTaskComplete(b) ==
    /\ SleepMayEnd(slept[b])
    /\ TaskComplete(b)
    /\ slept' = [slept EXCEPT ![b] = 0]
    /\ UNCHANGED <<watched, elapsed>>

Tick ==
    /\ \E b \in BatchIds : Running(b)
    /\ \A b \in BatchIds : ~Handled(b) /\ (Running(b) => SleepMayGoOn(slept[b]))
    /\ slept' = [b \in BatchIds |-> IF Running(b) THEN slept[b] + 1 ELSE slept[b]]
    /\ elapsed' = IF watched # 0 /\ ~Finished(watched) THEN elapsed + 1 ELSE elapsed
    /\ UNCHANGED <<watched, pollVars, conns>>

----------------------------------------------------------------------------
(* Specifications of the polling variant *)

Init ==
    /\ slow_results = [k \in {} |-> None]
    /\ batches = <<>>
    /\ response = NoResponse
    /\ slept = <<>>
    /\ watched = 0
    /\ elapsed = 0
    /\ conns = <<>>

NextPoll ==
    \/ \E seed \in Seeds : GetRows(MaxBatches, seed) /\ UNCHANGED timeVars
    \/ \E b \in BatchIds : Respond(b) /\ UNCHANGED timeVars
    \/ \E b \in BatchIds : Disconnect(b) /\ UNCHANGED timeVars
    \/ \E b \in BatchIds : TaskComplete(b) /\ UNCHANGED timeVars
    \/ \E row_id \in FetchIds : GetSlowValue(row_id) /\ UNCHANGED timeVars

\* The untimed polling variant.
SpecPoll == Init /\ [][NextPoll]_vars

NextPollLive ==
    \/ \E seed \in Seeds : GetRows(MaxLiveBatches, seed) /\ UNCHANGED timeVars
    \/ \E b \in BatchIds : Respond(b) /\ UNCHANGED timeVars
    \/ \E b \in BatchIds : Disconnect(b) /\ UNCHANGED timeVars
    \/ \E b \in BatchIds : TaskComplete(b) /\ UNCHANGED timeVars
    \/ \E row_id \in FetchIds : GetSlowValue(row_id) /\ UNCHANGED timeVars

\* The event loop runs every callback that is ready: a response that can be
\* sent is sent, and a sleeping task is woken when its timer expires.
SpecPollFair ==
    /\ Init /\ [][NextPollLive]_vars
    /\ \A b \in 1..MaxLiveBatches :
           /\ WF_vars(b \in BatchIds /\ Respond(b) /\ UNCHANGED timeVars)
           /\ WF_vars(b \in BatchIds /\ TaskComplete(b) /\ UNCHANGED timeVars)

NextTimed ==
    \/ \E seed \in Seeds : TimedGetRows(seed)
    \/ \E b \in BatchIds : TimedRespond(b)
    \/ \E b \in BatchIds : TimedTaskComplete(b)
    \/ Tick

\* The polling variant with the delays of compute_slow_value.
SpecTimed == Init /\ [][NextTimed]_vars

----------------------------------------------------------------------------
(* Polling variant: what the clients observe *)

\* The slow_value a GET /slow-value/{row_id} would return now.
Fetched(row_id) == get_slow_value_result(slow_results, row_id).resp.body.slow_value

\* Every task request b queued has written, and every row of b can be fetched.
AllAvailable(b) ==
    /\ Finished(b)
    /\ \A k \in 1..Len(batches[b].tasks) :
           /\ TaskWritten(b, k)
           /\ Fetched(batches[b].tasks[k]) = SlowValueText(batches[b].tasks[k])

\* A task of request b for row_id has made its write.
WrittenBy(b, row_id) ==
    \E k \in 1..Len(batches[b].tasks) :
        batches[b].tasks[k] = row_id /\ TaskWritten(b, k)

\* A body as GET /rows returns it: NumRows rows, every slow_value None.
FullNullBatch(rows) ==
    /\ Len(rows) = NumRows
    /\ \A k \in 1..Len(rows) : rows[k].slow_value = None

\* The row identifiers no GET /rows has returned so far.
UnknownIds == {id \in FetchIds : \A b \in BatchIds : id \notin BatchRowIds(b)}

----------------------------------------------------------------------------
(* Claims about the polling variant *)

\* C3: after any GET /rows, every task it queued eventually writes the store
\* and every returned id can then be fetched as "SlowValue-{id}", whether the
\* client disconnects or not and whether anyone polls or not.
C3_EventualAvailability ==
    \A b \in 1..MaxLiveBatches :
        (Len(batches) >= b) ~> (Len(batches) >= b /\ AllAvailable(b))

\* C3 witness: a request whose client went away and which nobody polled has
\* all its values in the store.
C3_Witness ==
    \E b \in BatchIds :
        /\ batches[b].client = "gone"
        /\ response.kind = "none"
        /\ AllAvailable(b)

\* C4 (as claimed): after every GET /rows, a fetch of an id of that batch
\* returns None until the task that call queued for the id has completed.
C4_NotReadyUntilOwnTask ==
    \A b \in BatchIds :
        \A id \in BatchRowIds(b) :
            ~WrittenBy(b, id) => Fetched(id) = None

\* C5: a GET /rows response is the full batch with every slow_value None, and
\* it is out (or its client gone) before any task of that request has started:
\* while the client still waits, the request has neither started nor
\* completed a task.
C5_NonBlockingInitiate ==
    /\ \A b \in BatchIds :
           /\ batches[b].client = "waiting" =>
                  /\ Handled(b)
                  /\ FullNullBatch(batches[b].rows)
                  /\ \A k \in 1..Len(batches[b].tasks) : ~TaskWritten(b, k)
           /\ Len(batches[b].tasks) = NumRows
    /\ response.kind = "rows" => FullNullBatch(response.body)

\* C5 witness: the client has the batch and the first task of the request has
\* not written yet.
C5_Witness ==
    /\ response.kind = "rows"
    /\ \E b \in BatchIds :
           /\ batches[b].client = "received"
           /\ Running(b)
           /\ ~TaskWritten(b, 1)

\* C6: in every reachable state a fetch of an id no GET /rows ever returned
\* answers 200 with slow_value None.
C6_UnknownIdentifier ==
    /\ \A id \in FetchIds \ (1..NumRows) : id \in UnknownIds
    /\ \A id \in UnknownIds :
           get_slow_value_result(slow_results, id).resp =
               [kind |-> "slow-value", status |-> 200,
                body |-> [id |-> id, slow_value |-> None]]

\* C6 witness: after a completed batch a client fetched id NumRows + 1 and
\* got None.
C6_Witness ==
    /\ \E b \in BatchIds : Finished(b)
    /\ response.kind = "slow-value"
    /\ response.body.id = NumRows + 1
    /\ response.body.slow_value = None

\* A step in which a client received a new /slow-value response.
FetchStep ==
    /\ response'.kind = "slow-value"
    /\ response.kind = "slow-value" => response'.body # response.body

\* C7: GET /slow-value leaves the store as it found it and queues nothing, and
\* a second call for the same id right after it returns the same response.
C7_FetchReadOnly ==
    /\ [](\A id \in FetchIds :
            LET r == get_slow_value_result(slow_results, id)
            IN  /\ r.store = slow_results
                /\ get_slow_value_result(r.store, id).resp = r.resp)
    /\ [][FetchStep => UNCHANGED <<slow_results, batches>>]_vars

\* C7 witness: a fetch has returned a stored value.
C7_Witness ==
    /\ response.kind = "slow-value"
    /\ response.body.slow_value # None
    /\ response.body.slow_value = Fetched(response.body.id)

----------------------------------------------------------------------------
(* Claims about the polling variant, continued *)

\* The identifiers of a sequence of rows, in order.
RowIds(rows) == [k \in 1..Len(rows) |-> rows[k].id]

C12_ReadinessIrreversible ==
    /\ [][\A id \in FetchIds :
             Fetched(id) # None => Fetched(id)' = Fetched(id)]_vars
    /\ [][\A b \in BatchIds :
             /\ batches'[b].next >= batches[b].next
             /\ Finished(b) => batches'[b].phase = "done"
             /\ Running(b) => batches'[b].phase # "handled"]_vars

\* C12 witness: a client has fetched the value of id 1 while the request was
\* under way, and the request has since completed all its tasks.
C12_Witness ==
    /\ response.kind = "slow-value"
    /\ response.body.id = 1
    /\ response.body.slow_value = SlowValueText(1)
    /\ Len(batches) = 1
    /\ Finished(1)
    /\ Fetched(1) = SlowValueText(1)

\* C14: a task's write changes the entry of its own key and no other, so no
\* write of another task is lost: every entry once written is there in every
\* later state, and when all requests are done the store holds every key
\* of every batch however their tasks interleaved.
C14_IsolatedWrites ==
    /\ [][/\ \A x \in DOMAIN slow_results :
                x \in DOMAIN slow_results' /\ slow_results'[x] = slow_results[x]
          /\ Cardinality((DOMAIN slow_results') \ (DOMAIN slow_results)) <= 1]_vars
    /\ [](\A b \in BatchIds : \A k \in 1..Len(batches[b].tasks) :
            TaskWritten(b, k) => batches[b].tasks[k] \in DOMAIN slow_results)
    /\ []((batches # <<>> /\ \A b \in BatchIds : Finished(b)) =>
            slow_results = [x \in Range(RowRange) |-> SlowValueText(x)])

\* C14 witness: the later of two overlapping requests has written keys the
\* earlier one has not written yet.
C14_Witness ==
    /\ Len(batches) = 2
    /\ Running(1) /\ batches[1].next = 2
    /\ Running(2) /\ batches[2].next = 4
    /\ DOMAIN slow_results = 1..3

\* C15: every GET /rows returns rows with the identifiers 1..10 in ascending
\* order and every slow_value None, and queues exactly one task per returned
\* row, for that row's identifier.
C15_BatchTaskConsistency ==
    /\ \A b \in BatchIds :
           /\ batches[b].tasks = [k \in 1..10 |-> k]
           /\ Handled(b) =>
                  /\ RowIds(batches[b].rows) = batches[b].tasks
                  /\ \A k \in 1..Len(batches[b].rows) :
                         batches[b].rows[k].slow_value = None
    /\ response.kind = "rows" =>
           /\ RowIds(response.body) = [k \in 1..10 |-> k]
           /\ \A k \in 1..Len(response.body) : response.body[k].slow_value = None

\* C15 witness: a second GET /rows has returned and queued its tasks while the
\* client holds the rows of the first.
C15_Witness ==
    /\ response.kind = "rows"
    /\ Len(batches) = 2
    /\ Handled(2)
    /\ Len(batches[2].tasks) = Len(batches[2].rows)

\* C16: in every reachable state every key of the store is one of 1..10 and
\* the value at key k is "SlowValue-k", so tasks of overlapping requests that
\* write the same key write the same value.
C16_StoreInvariant ==
    \A x \in DOMAIN slow_results :
        /\ x \in 1..10
        /\ slow_results[x] = <<"SlowValue-", x>>

\* C16 witness: two overlapping requests have both written key 1.
C16_Witness ==
    /\ Len(batches) = 2
    /\ Running(1) /\ TaskWritten(1, 1)
    /\ Running(2) /\ TaskWritten(2, 1)
    /\ 1 \in DOMAIN slow_results

----------------------------------------------------------------------------
(* Streaming variant: the generator stream_rows *)

\* json.dumps(value): the JSON text of value.
JsonDumps(value) == [json |-> value]

\* fast_rows, the list comprehension over range(1, 6)
fast_rows ==
    LET r == PyRange(1, FastRangeStop)
    IN  [k \in 1..Len(r) |-> [id |-> r[k], name |-> ItemName(r[k]), price |-> r[k] * 10]]

\* slow_values over range(0, 5)
slow_values_shifted ==
    LET r == PyRange(0, SlowRangeStop - 1)
    IN  [k \in 1..Len(r) |-> [id |-> r[k], slow_value |-> <<"Computed-", r[k]>>]]

\* slow_values, the list comprehension over range(1, 6)
slow_values ==
    LET r == PyRange(1, SlowRangeStop)
    IN  [k \in 1..Len(r) |-> [id |-> r[k], slow_value |-> <<"Computed-", r[k]>>]]

\* f"event: {kind}\ndata: {data}\n\n"
Chunk(kind, data) == [event |-> kind, data |-> data]

FastChunk == Chunk("fast", JsonDumps(fast_rows))
SlowChunk == Chunk("slow", JsonDumps(slow_values))
DoneChunk == Chunk("done", "finished")

\* The line the finally block prints.
ClosingLine == "Request process complete. Closing stream"

\* stream_rows with the two data yields in the wrong order.
stream_rows_resume_swapped(pc) ==
    CASE pc = "created" ->
           [pc |-> "yield_fast", yields |-> <<SlowChunk>>,
            prints |-> <<"Request received">>]
      [] pc = "yield_fast" ->
           [pc |-> "sleeping", yields |-> <<>>,
            prints |-> <<"Sent fast attributes">>]
      [] pc = "sleeping" ->
           [pc |-> "yield_slow", yields |-> <<FastChunk>>,
            prints |-> <<"Finished slow computation">>]
      [] pc = "yield_slow" ->
           [pc |-> "yield_done", yields |-> <<DoneChunk>>,
            prints |-> <<"Sent slow attributes">>]
      [] pc = "yield_done" ->
           [pc |-> "closed", yields |-> <<>>,
            prints |-> <<"Sent done event", ClosingLine>>]

\* stream_rows resumed at the suspension point pc and run to its next one:
\* where it suspends, what it yields and what it prints on the way.  From the
\* last yield it runs off the end of the try block and through finally.
stream_rows_resume(pc) ==
    CASE pc = "created" ->
           [pc |-> "yield_fast", yields |-> <<FastChunk>>,
            prints |-> <<"Request received">>]
      [] pc = "yield_fast" ->
           [pc |-> "sleeping", yields |-> <<>>,
            prints |-> <<"Sent fast attributes">>]
      [] pc = "sleeping" ->
           [pc |-> "yield_slow", yields |-> <<SlowChunk>>,
            prints |-> <<"Finished slow computation">>]
      [] pc = "yield_slow" ->
           [pc |-> "yield_done", yields |-> <<DoneChunk>>,
            prints |-> <<"Sent slow attributes">>]
      [] pc = "yield_done" ->
           [pc |-> "closed", yields |-> <<>>,
            prints |-> <<"Sent done event", ClosingLine>>]

\* stream_rows with "except Exception:" in place of "finally:": GeneratorExit
\* and CancelledError pass the handler by.
stream_rows_throw_except(pc) ==
    [pc |-> "closed", yields |-> <<>>, prints |-> <<>>]

\* stream_rows with its finally block run by every close, that of a generator
\* which was never started included.
stream_rows_throw_unstarted(pc) ==
    [pc |-> "closed", yields |-> <<>>, prints |-> <<ClosingLine>>]

\* An exception thrown into stream_rows at the suspension point pc:
\* GeneratorExit at a yield when the generator is closed, CancelledError at
\* the await.  A generator that was never started has not entered the try
\* block and just ends; anywhere else the finally block runs.
stream_rows_throw(pc) ==
    [pc |-> "closed", yields |-> <<>>,
     prints |-> IF pc = "created" THEN <<>> ELSE <<ClosingLine>>]

\* stream_rows resumed at pc and failing inside the try block before it
\* reaches its next suspension point.
stream_rows_fault(pc) ==
    [pc |-> "closed", yields |-> <<>>,
     prints |-> IF pc = "created" THEN <<"Request received", ClosingLine>>
                ELSE <<ClosingLine>>]

----------------------------------------------------------------------------
(* Streaming variant: connections *)

ConnIds == 1..Len(conns)

\* A generator shared by all connections (stream_rows() called once at module
\* level): a new connection goes on where the last one stands.
SharedProducer ==
    IF conns = <<>>
    THEN [pc |-> "created", events |-> <<>>, log |-> <<>>, slept |-> 0,
          consumer |-> "open"]
    ELSE [conns[Len(conns)] EXCEPT !.events = <<>>, !.consumer = "open"]

\* stream(): a new generator object, not started, handed to StreamingResponse.
NewProducer ==
    [pc |-> "created", events |-> <<>>, log |-> <<>>, slept |-> 0,
     consumer |-> "open"]

\* The connection record after the generator went from its suspension point
\* to the one in step, the consumer ending up as consumer.
Advance(rec, step, consumer) ==
    [rec EXCEPT !.pc = step.pc,
                !.events = rec.events \o step.yields,
                !.log = rec.log \o step.prints,
                !.slept = 0,
                !.consumer = consumer]

\* GET /stream
Stream ==
    /\ Len(conns) < MaxConns
    /\ conns' = Append(conns, NewProducer)
    /\ UNCHANGED <<pollVars, timeVars>>

\* StreamingResponse asks the generator for its next chunk (__anext__) and
\* sends what it yields; the consumer may take as long as it likes to ask.
\* After the fast chunk the call stays pending while the generator sleeps;
\* after the done chunk it ends the stream.
Pull(c) ==
    /\ conns[c].consumer = "open"
    /\ conns[c].pc \in {"created", "yield_fast", "yield_slow", "yield_done"}
    /\ LET step == stream_rows_resume(conns[c].pc)
       IN  conns' = [conns EXCEPT ![c] =
               Advance(conns[c], step,
                       IF step.pc = "closed" THEN "finished" ELSE "open")]
    /\ UNCHANGED <<pollVars, timeVars>>

\* One time unit of asyncio.sleep(3) passes for connection c.
SleepTick(c) ==
    /\ conns[c].pc = "sleeping"
    /\ conns[c].slept < SleepDelay
    /\ conns' = [conns EXCEPT ![c].slept = conns[c].slept + 1]
    /\ UNCHANGED <<pollVars, timeVars>>

\* The sleep of connection c is over: the generator goes on to yield slow.
Wake(c) ==
    /\ conns[c].pc = "sleeping"
    /\ conns[c].slept = SleepDelay
    /\ conns' = [conns EXCEPT ![c] =
           Advance(conns[c], stream_rows_resume(conns[c].pc), "open")]
    /\ UNCHANGED <<pollVars, timeVars>>

\* A disconnect that is not passed on to the generator: the sleep is not
\* cancelled and the generator goes on when its timer expires.
AbandonUnnoticed(c) ==
    /\ conns[c].consumer = "open"
    /\ conns[c].pc # "closed"
    /\ conns' = [conns EXCEPT ![c].consumer = "gone"]
    /\ UNCHANGED <<pollVars, timeVars>>

\* The client of connection c goes away.  A generator inside the await is
\* cancelled there and then; one suspended at a yield, or not started, is
\* left as it is until it is closed.
Abandon(c) ==
    /\ conns[c].consumer = "open"
    /\ conns[c].pc # "closed"
    /\ conns' = [conns EXCEPT ![c] =
           IF conns[c].pc = "sleeping"
           THEN Advance(conns[c], stream_rows_throw(conns[c].pc), "gone")
           ELSE [conns[c] EXCEPT !.consumer = "gone"]]
    /\ UNCHANGED <<pollVars, timeVars>>

\* The abandoned generator of connection c is closed (aclose by the event
\* loop's async generator finalizer).
Finalize(c) ==
    /\ conns[c].consumer = "gone"
    /\ conns[c].pc # "closed"
    /\ conns' = [conns EXCEPT ![c] =
           Advance(conns[c], stream_rows_throw(conns[c].pc), "gone")]
    /\ UNCHANGED <<pollVars, timeVars>>

\* The generator of connection c is resumed and fails inside the try block;
\* the exception ends the response.
Fault(c) ==
    /\ conns[c].consumer = "open"
    /\ \/ conns[c].pc \in {"created", "yield_fast", "yield_slow", "yield_done"}
       \/ conns[c].pc = "sleeping" /\ conns[c].slept = SleepDelay
    /\ conns' = [conns EXCEPT ![c] =
           Advance(conns[c], stream_rows_fault(conns[c].pc), "failed")]
    /\ UNCHANGED <<pollVars, timeVars>>

\* Any step of connection c.
ConnStep(c) ==
    /\ c \in ConnIds
    /\ Pull(c) \/ SleepTick(c) \/ Wake(c) \/ Abandon(c) \/ Finalize(c) \/ Fault(c)

NextStream ==
    \/ Stream
    \/ \E c \in ConnIds : Pull(c)
    \/ \E c \in ConnIds : SleepTick(c)
    \/ \E c \in ConnIds : Wake(c)
    \/ \E c \in ConnIds : Abandon(c)
    \/ \E c \in ConnIds : Finalize(c)
    \/ \E c \in ConnIds : Fault(c)

\* The streaming variant.
SpecStream == Init /\ [][NextStream]_vars

\* Every connection comes to an end: the consumer drains it or goes away, the
\* timer of a sleep expires, and a generator left behind is closed.
SpecStreamFair ==
    /\ SpecStream
    /\ \A c \in 1..MaxConns : WF_vars(ConnStep(c))

----------------------------------------------------------------------------
(* Streaming variant: what is observed *)

\* The event kinds connection c has emitted, in order.
Kinds(c) == [k \in 1..Len(conns[c].events) |-> conns[c].events[k].event]

\* How often the finally block of connection c has run.
Finalizations(c) ==
    Cardinality({k \in 1..Len(conns[c].log) : conns[c].log[k] = ClosingLine})

\* The generator of connection c has been started.
Started(c) == conns[c].log # <<>>

\* The row identifiers in the payload of a fast or slow chunk.
PayloadIds(chunk) == {chunk.data.json[k].id : k \in 1..Len(chunk.data.json)}

\* The chunks of connection c of the given kind.
ChunksOf(c, kind) == {k \in 1..Len(conns[c].events) : conns[c].events[k].event = kind}

\* s is an initial part of t.
IsPrefix(s, t) == Len(s) <= Len(t) /\ \A k \in 1..Len(s) : s[k] = t[k]

\* The number of chunks a generator suspended at pc has yielded.
YieldedAt(pc) ==
    CASE pc = "created" -> 0
      [] pc \in {"yield_fast", "sleeping"} -> 1
      [] pc = "yield_slow" -> 2
      [] pc = "yield_done" -> 3

----------------------------------------------------------------------------
(* Claims about the streaming variant *)

\* C1: a stream consumed to completion has emitted exactly fast, slow, done,
\* and on no connection does a slow event come without a fast one before it.
C1_EventOrder ==
    \A c \in ConnIds :
        /\ conns[c].consumer = "finished" => Kinds(c) = <<"fast", "slow", "done">>
        /\ \A k \in ChunksOf(c, "slow") : \E j \in ChunksOf(c, "fast") : j < k

\* C1 witness: a connection was consumed to completion.
C1_Witness ==
    \E c \in ConnIds : conns[c].consumer = "finished" /\ Len(conns[c].events) = 3

C9_IdentifierConsistency ==
    \A c \in ConnIds :
        \A f \in ChunksOf(c, "fast") :
            \A g \in ChunksOf(c, "slow") :
                /\ PayloadIds(conns[c].events[f]) = PayloadIds(conns[c].events[g])
                /\ PayloadIds(conns[c].events[f]) = 1..5
                /\ Len(conns[c].events[f].data.json) = 5
                /\ Len(conns[c].events[g].data.json) = 5

\* C9 witness: a connection has emitted the fast and the slow payload.
C9_Witness ==
    \E c \in ConnIds : ChunksOf(c, "fast") # {} /\ ChunksOf(c, "slow") # {}

\* C10: every connection has a producer of its own that starts with fast:
\* what a connection has received is the initial part of fast, slow, done that
\* its own producer has got to, and a step of one connection leaves every
\* other connection as it was.
C10_IndependentConnections ==
    /\ [](\A c \in ConnIds :
            /\ IsPrefix(conns[c].events, <<FastChunk, SlowChunk, DoneChunk>>)
            /\ conns[c].pc # "closed" => Len(conns[c].events) = YieldedAt(conns[c].pc)
            /\ Finalizations(c) <= 1)
    /\ [][\A c \in ConnIds : \A d \in ConnIds \ {c} :
             conns'[c] # conns[c] => conns'[d] = conns[d]]_vars

\* C10 witness: of two connections one was abandoned after fast and closed,
\* while the other was consumed to completion.
C10_Witness ==
    \E c \in ConnIds : \E d \in ConnIds :
        /\ conns[c].consumer = "gone" /\ conns[c].pc = "closed"
        /\ Kinds(c) = <<"fast">>
        /\ conns[d].consumer = "finished"
        /\ Kinds(d) = <<"fast", "slow", "done">>
        /\ Finalizations(c) = 1 /\ Finalizations(d) = 1

----------------------------------------------------------------------------
(* Claims about the streaming variant, continued *)

\* C13: a client that goes away while the producer sleeps between fast and
\* slow cancels the sleep: the producer ends there, its finally block run, and
\* emits nothing more.  No connection whose client is gone emits anything, and
\* what a connection has emitted is always an initial part of fast, slow, done.
C13_AbandonedConnection ==
    /\ [][\A c \in ConnIds :
             /\ (conns[c].pc = "sleeping" /\ conns'[c].consumer = "gone") =>
                    /\ conns'[c].pc = "closed"
                    /\ conns'[c].events = conns[c].events
                    /\ conns'[c].log = conns[c].log \o <<ClosingLine>>
             /\ conns[c].consumer = "gone" =>
                    /\ conns'[c].events = conns[c].events
                    /\ conns'[c].consumer = "gone"]_vars
    /\ [](\A c \in ConnIds :
            /\ IsPrefix(Kinds(c), <<"fast", "slow", "done">>)
            /\ ~(conns[c].consumer = "gone" /\ conns[c].pc = "sleeping"))

\* C13 witness: a client went away during the sleep; the producer has printed
\* that fast was sent, has emitted fast alone and has run its finally block.
C13_Witness ==
    \E c \in ConnIds :
        /\ conns[c].consumer = "gone"
        /\ conns[c].pc = "closed"
        /\ Kinds(c) = <<"fast">>
        /\ conns[c].log = <<"Request received", "Sent fast attributes", ClosingLine>>

\* C17: the finally block runs only in a producer that was started, as the
\* last thing it does: the closing line is never the first line printed, it
\* is the last one, the producer is closed, and from then on the connection
\* emits and prints nothing.
C17_FinalizationTerminal ==
    /\ [](\A c \in ConnIds :
            Finalizations(c) >= 1 =>
                /\ conns[c].log[1] = "Request received"
                /\ conns[c].log[Len(conns[c].log)] = ClosingLine
                /\ conns[c].pc = "closed"
                /\ (conns[c].consumer = "finished" =>
                        /\ Kinds(c) = <<"fast", "slow", "done">>
                        /\ conns[c].log[Len(conns[c].log) - 1] = "Sent done event"))
    /\ [][\A c \in ConnIds :
             Finalizations(c) >= 1 =>
                 /\ conns'[c].events = conns[c].events
                 /\ conns'[c].log = conns[c].log]_vars

\* C17 witness: one connection was consumed to completion and finalized after
\* done; another was closed without ever being started and was not finalized.
C17_Witness ==
    \E c \in ConnIds : \E d \in ConnIds :
        /\ conns[c].consumer = "finished"
        /\ Finalizations(c) = 1
        /\ Len(conns[c].log) = 6
        /\ conns[d].pc = "closed"
        /\ conns[d].log = <<>>
        /\ Finalizations(d) = 0

====
